---- MODULE Spec2Model ----
(***************************************************************************)
(* Seat inventory and order transactions of the flight app                 *)
(* (flight/models.py, flight/serializers.py, flight/views.py).             *)
(*                                                                         *)
(* The persistent store is the committed tables airplanes, flights,        *)
(* orders and tickets.  A create_order request runs in a worker `c`:       *)
(* OrderSerializer validation, then OrderSerializer.create, which opens    *)
(* transaction.atomic(), inserts the Order and inserts the Tickets one by  *)
(* one; rows written inside the open transaction are kept in pend[c] and   *)
(* reach the committed tables only when the atomic block exits normally.   *)
(***************************************************************************)
EXTENDS Integers, Sequences, FiniteSets, TLC

\* ---------------------------------------------------------------- bounds
NCalls == 2
NUsers == 2
MaxAirplanes == 2
MaxFlights == 1
MaxFlightId == 2
MaxRows == 2
MaxSeatsInRow == 1
MaxTickets == 2
NAirports == 2
MaxRoutes == 3
MaxDistance == 2
MaxPieces == 2
MaxNames == 2
MaxCrew == 2
MaxTime == 3

Calls == 1..NCalls
Users == 1..NUsers
AirplaneIds == 1..MaxAirplanes
\* the flight primary keys a client may send
FlightIds == 1..MaxFlightId
AirportIds == 1..NAirports
RouteIds == 1..MaxRoutes
CrewIds == 1..MaxCrew
\* timestamps, in order
Times == 1..MaxTime
\* the names (strings) a catalog row may be given
Names == 1..MaxNames
\* values a client or an admin may send for a row / seat / rows / seats_in_row
RowVals == 0..(MaxRows + 1)
SeatVals == 0..(MaxSeatsInRow + 1)

VARIABLES
    airplanes,  \* Airplane table: id -> [rows, seats_in_row]
    flights,    \* Flight table: id -> [route, airplane, crew,
                \*                     departure_time, arrival_time]
    orders,     \* Order table: id -> [user]
    tickets,    \* Ticket table: set of [id, flight, row, seat, order]
    nextId,     \* next Order primary key
    pc,         \* position of each create_order request
    usr,        \* request.user of each create_order request
    req,        \* validated_data["tickets"] of each request
    oid,        \* primary key of the Order the request inserted
    pend,       \* Tickets the request inserted in its open transaction
    err,        \* how the request failed
    failAt,     \* indexes of the ticket requests that failed
    probe,      \* input and outcome of a stand-alone validate_ticket call
    airports,   \* Airport table: id -> [name]
    routes,     \* Route table: id -> [source, destination, distance]
    crews,      \* Crew table: id -> [name]
    seq,        \* next primary key of each table that API requests add to
    resp,       \* the last response of a catalog or order endpoint
    fq,         \* query parameters and outcome of a GET /flights/ request
    airplane_types, \* AirplaneType table: id -> [name]
    role        \* who the client is: "anonymous", "user" (authenticated,
                \* not staff) or "admin" (staff)

vars == <<airplanes, flights, orders, tickets, nextId,
          pc, usr, req, oid, pend, err, failAt, probe,
          airports, routes, crews, seq, resp, fq, airplane_types, role>>
side == <<airplane_types, role>>
refdata == <<airports, routes, crews>>
\* what the seat inventory and order operations leave alone
rest == <<airports, routes, crews, seq, resp, fq>>
catalog == <<airplanes, flights>>
store == <<orders, tickets>>
callVars == <<pc, usr, req, oid, pend, err, failAt, nextId>>

\* ------------------------------------------------------------ helpers
Key(t) == <<t.flight, t.row, t.seat>>
Keys(S) == {Key(t) : t \in S}
Range(s) == {s[i] : i \in DOMAIN s}
Put(f, k, v) == [x \in (DOMAIN f) \cup {k} |-> IF x = k THEN v ELSE f[x]]
Drop(f, k) == [x \in (DOMAIN f) \ {k} |-> f[x]]
NoProbe == [row |-> 0, seat |-> 0, rows |-> 0, seats_in_row |-> 0,
            out |-> "none", to_rise |-> {}]

\* ------------------------------------------------- Ticket.validate_ticket
\* The keys of to_rise: one per coordinate outside [1, max_val].
ValidateTicketStrict(row, seat, airplane) ==
    (IF 1 <= row /\ row < airplane.rows THEN {} ELSE {"rows"})
    \cup (IF 1 <= seat /\ seat < airplane.seats_in_row
          THEN {} ELSE {"seats_in_row"})

\* the loop stops at the first coordinate that is out of bounds
ValidateTicketFirstOnly(row, seat, airplane) ==
    IF ~(1 <= row /\ row <= airplane.rows) THEN {"rows"}
    ELSE IF ~(1 <= seat /\ seat <= airplane.seats_in_row)
    THEN {"seats_in_row"}
    ELSE {}

ValidateTicket(row, seat, airplane) ==
    (IF 1 <= row /\ row <= airplane.rows THEN {} ELSE {"rows"})
    \cup (IF 1 <= seat /\ seat <= airplane.seats_in_row
          THEN {} ELSE {"seats_in_row"})

\* validate_ticket raises nothing
Accepts(row, seat, airplane) == ValidateTicket(row, seat, airplane) = {}

\* TicketSerializer.validate on one ticket request: the flight must exist
\* (primary-key related field) and the seat must be on its airplane.
TicketValid(t) ==
    /\ t.flight \in DOMAIN flights
    /\ Accepts(t.row, t.seat, airplanes[flights[t.flight].airplane])

\* ------------------------------------------------------------- Airplane
Capacity(a) == airplanes[a].rows * airplanes[a].seats_in_row

\* ---------------------------------------------- FlightViewSet.get_queryset
TicketsOf(f) == {t \in tickets : t.flight = f}
TicketsAvailableNoCount(f) == Capacity(flights[f].airplane)
TicketsAvailable(f) ==
    Capacity(flights[f].airplane) - Cardinality(TicketsOf(f))

\* Order.tickets (related_name of Ticket.order)
OrderTickets(o) == {t \in tickets : t.order = o}

\* ----------------------------------------------- OrderViewSet.get_queryset
OrderQuerysetAll(ords, u) == DOMAIN ords
OrderQueryset(ords, u) == {o \in DOMAIN ords : ords[o].user = u}
\* GET /orders/ : the ids listed to user u when the Order table is ords
OrderList(ords, u) == OrderQueryset(ords, u)
\* GET /orders/<id>/ : get_object() over the filtered queryset
OrderRetrieve(ords, u, o) ==
    IF o \in OrderQueryset(ords, u) THEN o ELSE "NotFound"

\* ------------------------------------------------------ the store's rules
\* Ticket.Meta unique_flight_row_seat, as seen by a statement of request c:
\* the committed rows and the rows of c's own open transaction.
SeatSoldNever(t, c) == FALSE
SeatSoldSameFlight(t, c) ==
    t.flight \in {p.flight : p \in tickets \cup Range(pend[c])}
SeatSoldCommittedOnly(t, c) == Key(t) \in Keys(tickets)
SeatSold(t, c) == Key(t) \in Keys(tickets) \cup Keys(Range(pend[c]))

\* The unique index entry of an uncommitted row of another open transaction:
\* the INSERT waits until that transaction commits or rolls back.
SeatLockedNever(t, c) == FALSE
SeatLocked(t, c) ==
    \E d \in Calls \ {c} : Key(t) \in Keys(Range(pend[d]))

NextIndex(c) == Len(pend[c]) + 1
Inserting(c) == pc[c] = "in_txn" /\ NextIndex(c) <= Len(req[c])
\* the open transactions request c waits for
WaitsFor(c) ==
    IF Inserting(c)
    THEN {d \in Calls \ {c} :
            Key(req[c][NextIndex(c)]) \in Keys(Range(pend[d]))}
    ELSE {}
RECURSIVE WaitChain(_, _)
WaitChain(S, n) ==
    IF n = 0 THEN S
    ELSE WaitChain(S \cup UNION {WaitsFor(d) : d \in S}, n - 1)
Deadlocked(c) == c \in WaitChain(WaitsFor(c), NCalls)

\* Leaving transaction.atomic() with an exception: nothing of the request
\* reaches the committed tables.
RollbackAutocommit(c) ==
    /\ orders' = Put(orders, oid[c], [user |-> usr[c]])
    /\ tickets' = tickets \cup Range(pend[c])
Rollback(c) ==
    /\ orders' = orders
    /\ tickets' = tickets

Fail(c, kind, i) ==
    /\ pc' = [pc EXCEPT ![c] = "failed"]
    /\ err' = [err EXCEPT ![c] = kind]
    /\ failAt' = [failAt EXCEPT ![c] = {i}]
    /\ pend' = [pend EXCEPT ![c] = <<>>]
    /\ Rollback(c)
    /\ UNCHANGED <<catalog, nextId, usr, req, oid, probe, side, rest>>

\* ------------------------------------------------------------ catalog
\* POST /airplanes/ with a new name and an existing airplane type
\* (Airplane.save -> full_clean: MinValueValidator(1))
CreateAirplane(rows, seats) ==
    /\ Cardinality(DOMAIN airplanes) < MaxAirplanes
    /\ rows >= 1 /\ seats >= 1
    /\ \E ty \in DOMAIN airplane_types :
          airplanes' = Put(airplanes, Cardinality(DOMAIN airplanes) + 1,
                           [name |-> Cardinality(DOMAIN airplanes) + 1,
                            rows |-> rows, seats_in_row |-> seats,
                            airplane_type |-> ty])
    /\ UNCHANGED <<flights, store, callVars, probe, side, rest>>

\* PATCH /airplanes/<id>/ {rows, seats_in_row}
UpdateAirplane(a, rows, seats) ==
    /\ a \in DOMAIN airplanes
    /\ rows >= 1 /\ seats >= 1
    /\ <<airplanes[a].rows, airplanes[a].seats_in_row>> # <<rows, seats>>
    /\ airplanes' = [airplanes EXCEPT
                       ![a].rows = rows, ![a].seats_in_row = seats]
    /\ UNCHANGED <<flights, store, callVars, probe, side, rest>>

\* POST /flights/ with an existing route and crew member and a valid window
CreateFlight(a) ==
    /\ Cardinality(DOMAIN flights) < MaxFlights
    /\ a \in DOMAIN airplanes
    /\ \E r \in DOMAIN routes, k \in DOMAIN crews :
          flights' = Put(flights, Cardinality(DOMAIN flights) + 1,
                         [route |-> r, airplane |-> a, crew |-> {k},
                          departure_time |-> 1, arrival_time |-> 2])
    /\ UNCHANGED <<airplanes, store, callVars, probe, side, rest>>

\* PATCH /flights/<id>/ {airplane}
UpdateFlight(f, a) ==
    /\ f \in DOMAIN flights
    /\ a \in DOMAIN airplanes
    /\ flights[f].airplane # a
    /\ flights' = [flights EXCEPT ![f].airplane = a]
    /\ UNCHANGED <<airplanes, store, callVars, probe, side, rest>>

\* ------------------------------------------------------------- orders
TicketRequest == [flight : FlightIds, row : RowVals, seat : SeatVals]
TicketLists == UNION {[1..n -> TicketRequest] : n \in 0..MaxTickets}

\* The "tickets" field of OrderSerializer: a required list field with
\* allow_empty=False. has: the payload carries the key.
TicketsFieldAllowEmpty(has, reqs) == "ok"
TicketsField(has, reqs) ==
    IF ~has THEN "required"
    ELSE IF Len(reqs) = 0 THEN "empty"
    ELSE "ok"

\* POST /orders/ up to the Order insert: serializer.is_valid(), then
\* perform_create -> OrderSerializer.create opens the transaction and
\* inserts the Order row.
PostOrderCall(c, u, has, reqs) ==
    /\ pc[c] = "idle"
    /\ usr' = [usr EXCEPT ![c] = u]
    /\ LET bad == {i \in DOMAIN reqs : ~TicketValid(reqs[i])}
           field == TicketsField(has, reqs)
       IN  IF field # "ok" \/ bad # {}
           THEN /\ pc' = [pc EXCEPT ![c] = "rejected"]
                /\ err' = [err EXCEPT ![c] =
                              IF field # "ok" THEN field ELSE "validation"]
                /\ failAt' = [failAt EXCEPT ![c] = bad]
                /\ UNCHANGED <<req, oid, nextId>>
           ELSE /\ pc' = [pc EXCEPT ![c] = "in_txn"]
                /\ req' = [req EXCEPT ![c] = reqs]
                /\ oid' = [oid EXCEPT ![c] = nextId]
                /\ nextId' = nextId + 1
                /\ UNCHANGED <<err, failAt>>
    /\ UNCHANGED <<catalog, store, pend, probe, side>>

PostOrder(c, u, has, reqs) ==
    /\ PostOrderCall(c, u, has, reqs)
    /\ UNCHANGED rest

\* is_valid keeps the writable fields of OrderSerializer.Meta.fields: id and
\* created_at are read-only, any other key of the payload is dropped.
OrderWritableFields == {"tickets"}
ValidatedData(payload) ==
    [k \in (DOMAIN payload) \cap OrderWritableFields |-> payload[k]]

\* serializer.save(user=request.user): the keyword arguments are laid over
\* the validated data handed to create().
SaveData(validated, u) ==
    [k \in (DOMAIN validated) \cup {"user"} |->
        IF k = "user" THEN u ELSE validated[k]]

\* the user of the Order that OrderSerializer.create inserts
OrderOwnerFromPayload(payload, u) ==
    IF "user" \in DOMAIN payload THEN payload["user"] ELSE u
OrderOwner(payload, u) == SaveData(ValidatedData(payload), u)["user"]

\* POST /orders/ with any payload, by user u; resp keeps the request.
PostOrderPayload(c, u, payload) ==
    /\ LET validated == ValidatedData(payload)
           has == "tickets" \in DOMAIN validated
       IN  PostOrderCall(c, OrderOwner(payload, u), has,
                         IF has THEN validated["tickets"] ELSE <<>>)
    /\ resp' = [op |-> "post_order", call |-> c, user |-> u,
                payload_user |-> IF "user" \in DOMAIN payload
                                 THEN payload["user"] ELSE 0,
                status |-> 0]
    /\ UNCHANGED <<refdata, seq, fq>>

\* POST /orders/ {tickets: reqs}
CreateOrder(c, u, reqs) == PostOrder(c, u, TRUE, reqs)

\* POST /orders/ {} : the payload has no "tickets" key
CreateOrderNoTickets(c, u) == PostOrder(c, u, FALSE, <<>>)

\* One pass of the loop: Ticket.objects.create(order=order, **ticket), that
\* is Ticket.save -> full_clean (clean, then the constraint check) -> INSERT.
InsertTicket(c) ==
    /\ Inserting(c)
    /\ LET i == NextIndex(c)
           t == req[c][i]
       IN  IF ~TicketValid(t)
           THEN Fail(c, "bounds", i)
           ELSE IF SeatSold(t, c)
           THEN Fail(c, "conflict", i)
           ELSE /\ ~SeatLocked(t, c)
                /\ pend' = [pend EXCEPT ![c] = Append(@,
                              [id |-> <<oid[c], i>>, flight |-> t.flight,
                               row |-> t.row, seat |-> t.seat,
                               order |-> oid[c]])]
                /\ UNCHANGED <<catalog, store, nextId, pc, usr, req, oid,
                               err, failAt, probe, side, rest>>

\* The store breaks a cycle of waiting transactions by failing one of them.
AbortDeadlock(c) ==
    /\ Inserting(c)
    /\ Deadlocked(c)
    /\ Fail(c, "deadlock", NextIndex(c))

\* Normal exit of the atomic block: the Order and its Tickets are committed.
CommitDropLast(c) ==
    /\ pc[c] = "in_txn"
    /\ Len(pend[c]) = Len(req[c])
    /\ orders' = Put(orders, oid[c], [user |-> usr[c]])
    /\ tickets' = tickets \cup Range(SubSeq(pend[c], 1, Len(pend[c]) - 1))
    /\ pc' = [pc EXCEPT ![c] = "done"]
    /\ pend' = [pend EXCEPT ![c] = <<>>]
    /\ UNCHANGED <<catalog, nextId, usr, req, oid, err, failAt, probe, side, rest>>
Commit(c) ==
    /\ pc[c] = "in_txn"
    /\ Len(pend[c]) = Len(req[c])
    /\ orders' = Put(orders, oid[c], [user |-> usr[c]])
    /\ tickets' = tickets \cup Range(pend[c])
    /\ pc' = [pc EXCEPT ![c] = "done"]
    /\ pend' = [pend EXCEPT ![c] = <<>>]
    /\ UNCHANGED <<catalog, nextId, usr, req, oid, err, failAt, probe, side, rest>>

\* DELETE /orders/<id>/ : get_object() over the caller's orders, then
\* instance.delete(); Ticket.order is on_delete=CASCADE.
DeleteOrderNoCascade(u, o) ==
    /\ o \in OrderQueryset(orders, u)
    /\ orders' = Drop(orders, o)
    /\ UNCHANGED <<tickets, catalog, callVars, probe, side, rest>>
\* the rows go one by one, each removal committed on its own: a Ticket of
\* the order while one is left, then the Order
DeleteOrderRowByRow(u, o) ==
    /\ o \in OrderQueryset(orders, u)
    /\ IF \E t \in tickets : t.order = o
       THEN /\ \E t \in tickets : t.order = o /\ tickets' = tickets \ {t}
            /\ orders' = orders
       ELSE /\ orders' = Drop(orders, o)
            /\ tickets' = tickets
    /\ UNCHANGED <<catalog, callVars, probe, side, rest>>
DeleteOrder(u, o) ==
    /\ o \in OrderQueryset(orders, u)
    /\ orders' = Drop(orders, o)
    /\ tickets' = {t \in tickets : t.order # o}
    /\ UNCHANGED <<catalog, callVars, probe, side, rest>>

\* DELETE /orders/<id>/ with its response: get_object() raises Http404 for
\* an id that is not among the caller's orders.
DestroyOrder(u, o) ==
    /\ IF o \in OrderQueryset(orders, u)
       THEN /\ orders' = Drop(orders, o)
            /\ tickets' = {t \in tickets : t.order # o}
            /\ resp' = [op |-> "destroy", user |-> u, order |-> o,
                        status |-> 204]
       ELSE /\ UNCHANGED store
            /\ resp' = [op |-> "destroy", user |-> u, order |-> o,
                        status |-> 404]
    /\ UNCHANGED <<catalog, callVars, probe, side, refdata, seq, fq>>

\* The actions of OrderViewSet: its mixins, and the HTTP method of each
\* detail-route action.
OrderActionsWithUpdate ==
    {"create", "retrieve", "destroy", "list", "update", "partial_update"}
OrderActions == {"create", "retrieve", "destroy", "list"}
DetailAction(method) ==
    CASE method = "PUT" -> "update"
      [] method = "PATCH" -> "partial_update"
      [] method = "DELETE" -> "destroy"
      [] method = "GET" -> "retrieve"

\* PUT or PATCH /orders/<id>/ : the router maps a method to an action only
\* when the viewset has it, otherwise the view answers 405 before any
\* lookup (the 405 carries nothing of the caller or the order). With the
\* action present the order's tickets would be replaced.
UpdateOrder(u, o, method) ==
    /\ method \in {"PUT", "PATCH"}
    /\ IF DetailAction(method) \notin OrderActions
       THEN /\ UNCHANGED store
            /\ resp' = [op |-> DetailAction(method), user |-> 0,
                        order |-> 0, status |-> 405]
       ELSE IF o \notin OrderQueryset(orders, u)
       THEN /\ UNCHANGED store
            /\ resp' = [op |-> DetailAction(method), user |-> u,
                        order |-> o, status |-> 404]
       ELSE /\ orders' = orders
            /\ tickets' = {t \in tickets : t.order # o}
            /\ resp' = [op |-> DetailAction(method), user |-> u,
                        order |-> o, status |-> 200]
    /\ UNCHANGED <<catalog, callVars, probe, side, refdata, seq, fq>>

\* ------------------------------------------ airports and airplane types
\* unique=True on name: the serializer's UniqueValidator looks for another
\* row (not the instance being updated) of table T with the name.
NameTakenNever(T, id, name) == FALSE
NameTaken(T, id, name) ==
    \E q \in (DOMAIN T) \ {id} : T[q].name = name

\* POST /airports/ {name}. Status 400 stands for the request failing.
PostAirport(name) ==
    /\ seq.airport <= NAirports + 1
    /\ IF ~NameTaken(airports, seq.airport, name)
       THEN /\ airports' = Put(airports, seq.airport, [name |-> name])
            /\ seq' = [seq EXCEPT !.airport = @ + 1]
            /\ resp' = [op |-> "create_airport", id |-> seq.airport,
                        body |-> [name |-> name], status |-> 201]
       ELSE /\ UNCHANGED <<airports, seq>>
            /\ resp' = [op |-> "create_airport", id |-> seq.airport,
                        body |-> [name |-> name], status |-> 400]
    /\ UNCHANGED <<catalog, store, callVars, probe, side, routes, crews, fq>>

\* PUT or PATCH /airports/<id>/ {name}
UpdateAirport(p, name) ==
    /\ p \in DOMAIN airports
    /\ IF ~NameTaken(airports, p, name)
       THEN /\ airports' = [airports EXCEPT ![p].name = name]
            /\ resp' = [op |-> "update_airport", id |-> p,
                        body |-> [name |-> name], status |-> 200]
       ELSE /\ airports' = airports
            /\ resp' = [op |-> "update_airport", id |-> p,
                        body |-> [name |-> name], status |-> 400]
    /\ UNCHANGED <<catalog, store, callVars, probe, side, routes, crews,
                   seq, fq>>

\* POST /airplane-types/ {name}
PostAirplaneType(name) ==
    /\ seq.airplane_type <= MaxNames
    /\ IF ~NameTaken(airplane_types, seq.airplane_type, name)
       THEN /\ airplane_types' =
                  Put(airplane_types, seq.airplane_type, [name |-> name])
            /\ seq' = [seq EXCEPT !.airplane_type = @ + 1]
            /\ resp' = [op |-> "create_airplane_type",
                        id |-> seq.airplane_type,
                        body |-> [name |-> name], status |-> 201]
       ELSE /\ UNCHANGED <<airplane_types, seq>>
            /\ resp' = [op |-> "create_airplane_type",
                        id |-> seq.airplane_type,
                        body |-> [name |-> name], status |-> 400]
    /\ UNCHANGED <<catalog, store, callVars, probe, role, refdata, fq>>

\* PUT or PATCH /airplane-types/<id>/ {name}
UpdateAirplaneType(ty, name) ==
    /\ ty \in DOMAIN airplane_types
    /\ IF ~NameTaken(airplane_types, ty, name)
       THEN /\ airplane_types' = [airplane_types EXCEPT ![ty].name = name]
            /\ resp' = [op |-> "update_airplane_type", id |-> ty,
                        body |-> [name |-> name], status |-> 200]
       ELSE /\ airplane_types' = airplane_types
            /\ resp' = [op |-> "update_airplane_type", id |-> ty,
                        body |-> [name |-> name], status |-> 400]
    /\ UNCHANGED <<catalog, store, callVars, probe, role, refdata, seq, fq>>

\* ---------------------------------------------------------- airplanes
AirplaneFields == {"name", "rows", "seats_in_row", "airplane_type"}

\* AirplaneSerializer.is_valid and Airplane.save -> full_clean on the row
\* rec that is to be stored under id a: the name is free, rows and
\* seats_in_row have MinValueValidator(1), the airplane type exists.
AirplaneOkNoMin(a, rec) ==
    /\ ~NameTaken(airplanes, a, rec.name)
    /\ rec.airplane_type \in DOMAIN airplane_types
AirplaneOk(a, rec) ==
    /\ ~NameTaken(airplanes, a, rec.name)
    /\ rec.rows >= 1
    /\ rec.seats_in_row >= 1
    /\ rec.airplane_type \in DOMAIN airplane_types

\* POST /airplanes/ {name, rows, seats_in_row, airplane_type}
PostAirplane(name, rows, seats, ty) ==
    /\ seq.airplane <= MaxAirplanes
    /\ LET rec == [name |-> name, rows |-> rows, seats_in_row |-> seats,
                   airplane_type |-> ty]
       IN  IF AirplaneOk(seq.airplane, rec)
           THEN /\ airplanes' = Put(airplanes, seq.airplane, rec)
                /\ seq' = [seq EXCEPT !.airplane = @ + 1]
                /\ resp' = [op |-> "create_airplane", id |-> seq.airplane,
                            body |-> rec, status |-> 201]
           ELSE /\ UNCHANGED <<airplanes, seq>>
                /\ resp' = [op |-> "create_airplane", id |-> seq.airplane,
                            body |-> rec, status |-> 400]
    /\ UNCHANGED <<flights, store, callVars, probe, side, refdata, fq>>

\* The request bodies that carry the fields of given (a field that is not
\* sent is written 0 here and never read).
AirplaneData(given) ==
    [name : IF "name" \in given THEN Names ELSE {0},
     rows : IF "rows" \in given THEN 0..MaxRows ELSE {0},
     seats_in_row : IF "seats_in_row" \in given
                    THEN 0..MaxSeatsInRow ELSE {0},
     airplane_type : IF "airplane_type" \in given
                     THEN 1..MaxNames ELSE {0}]

\* PUT (every field given) or PATCH (some fields given) /airplanes/<id>/
PutPatchAirplane(a, given, data) ==
    /\ a \in DOMAIN airplanes
    /\ given \subseteq AirplaneFields /\ given # {}
    /\ LET rec == [k \in AirplaneFields |->
                     IF k \in given THEN data[k] ELSE airplanes[a][k]]
           op == IF given = AirplaneFields THEN "put_airplane"
                 ELSE "patch_airplane"
       IN  IF AirplaneOk(a, rec)
           THEN /\ airplanes' = [airplanes EXCEPT ![a] = rec]
                /\ resp' = [op |-> op, id |-> a, body |-> rec,
                            status |-> 200]
           ELSE /\ airplanes' = airplanes
                /\ resp' = [op |-> op, id |-> a, body |-> rec,
                            status |-> 400]
    /\ UNCHANGED <<flights, store, callVars, probe, side, refdata, seq, fq>>

\* DELETE /airplane-types/<id>/ : its Airplanes go (Airplane.airplane_type
\* is on_delete=CASCADE), with their Flights and the Tickets of those.
\* FlightsOfType(ty): the flights on an airplane of the type.
FlightsOfType(ty) ==
    {f \in DOMAIN flights :
        /\ flights[f].airplane \in DOMAIN airplanes
        /\ airplanes[flights[f].airplane].airplane_type = ty}

\* ------------------------------------------------------------- routes
\* Route.save -> full_clean on the row rec that is to be stored under id r:
\* the foreign keys exist, distance has MinValueValidator(1), clean() wants
\* source # destination, and unique_source_destination is checked against
\* every other row.
RouteOkNoClean(r, rec) ==
    /\ rec.source \in DOMAIN airports
    /\ rec.destination \in DOMAIN airports
    /\ rec.distance >= 1
    /\ \A q \in (DOMAIN routes) \ {r} :
          <<routes[q].source, routes[q].destination>>
             # <<rec.source, rec.destination>>
RouteOk(r, rec) ==
    /\ rec.source \in DOMAIN airports
    /\ rec.destination \in DOMAIN airports
    /\ rec.distance >= 1
    /\ rec.source # rec.destination
    /\ \A q \in (DOMAIN routes) \ {r} :
          <<routes[q].source, routes[q].destination>>
             # <<rec.source, rec.destination>>

RouteFields == {"source", "destination", "distance"}

\* POST /routes/ {source, destination, distance}. Status 400 stands for the
\* request failing, whether in the serializer or in save().
PostRoute(src, dst, dist) ==
    /\ seq.route <= MaxRoutes
    /\ LET rec == [source |-> src, destination |-> dst, distance |-> dist]
       IN  IF RouteOk(seq.route, rec)
           THEN /\ routes' = Put(routes, seq.route, rec)
                /\ seq' = [seq EXCEPT !.route = @ + 1]
                /\ resp' = [op |-> "create_route", id |-> seq.route,
                            body |-> rec, status |-> 201]
           ELSE /\ UNCHANGED <<routes, seq>>
                /\ resp' = [op |-> "create_route", id |-> seq.route,
                            body |-> rec, status |-> 400]
    /\ UNCHANGED <<catalog, store, callVars, probe, side, airports, crews, fq>>

\* PUT (every field given) or PATCH (some fields given) /routes/<id>/ :
\* the serializer sets the given fields on the instance and saves it.
UpdateRoute(r, given, src, dst, dist) ==
    /\ r \in DOMAIN routes
    /\ given \subseteq RouteFields /\ given # {}
    /\ LET rec == [source |-> IF "source" \in given
                              THEN src ELSE routes[r].source,
                   destination |-> IF "destination" \in given
                                   THEN dst ELSE routes[r].destination,
                   distance |-> IF "distance" \in given
                                THEN dist ELSE routes[r].distance]
           op == IF given = RouteFields THEN "put_route" ELSE "patch_route"
       IN  IF RouteOk(r, rec)
           THEN /\ routes' = [routes EXCEPT ![r] = rec]
                /\ resp' = [op |-> op, id |-> r, body |-> rec,
                            status |-> 200]
           ELSE /\ routes' = routes
                /\ resp' = [op |-> op, id |-> r, body |-> rec,
                            status |-> 400]
    /\ UNCHANGED <<catalog, store, callVars, probe, side, airports, crews, seq,
                   fq>>

\* ------------------------------------------------------------ flights
FlightFields ==
    {"route", "airplane", "crew", "departure_time", "arrival_time"}

\* FlightSerializer.is_valid on the given fields: the related rows exist,
\* and crew, a many-to-many field with blank=False, is not empty.
FlightSerializerOk(rec, given) ==
    /\ "route" \in given => rec.route \in DOMAIN routes
    /\ "airplane" \in given => rec.airplane \in DOMAIN airplanes
    /\ "crew" \in given => (rec.crew # {} /\ rec.crew \subseteq DOMAIN crews)

\* Flight.clean, run by Flight.save -> full_clean
FlightCleanAllowEqual(rec) == rec.departure_time <= rec.arrival_time
FlightClean(rec) == rec.departure_time < rec.arrival_time

\* POST /flights/ : is_valid, then Flight.objects.create (save), then the
\* crew rows. Status 400 stands for the request failing, whether in the
\* serializer or in save().
PostFlight(r, a, crew, dep, arr) ==
    /\ seq.flight <= MaxFlightId
    /\ LET rec == [route |-> r, airplane |-> a, crew |-> crew,
                   departure_time |-> dep, arrival_time |-> arr]
       IN  IF FlightSerializerOk(rec, FlightFields) /\ FlightClean(rec)
           THEN /\ flights' = Put(flights, seq.flight, rec)
                /\ seq' = [seq EXCEPT !.flight = @ + 1]
                /\ resp' = [op |-> "create_flight", id |-> seq.flight,
                            body |-> rec, status |-> 201]
           ELSE /\ UNCHANGED <<flights, seq>>
                /\ resp' = [op |-> "create_flight", id |-> seq.flight,
                            body |-> rec, status |-> 400]
    /\ UNCHANGED <<airplanes, store, callVars, probe, side, refdata, fq>>

\* The request bodies that carry the fields of given (a field that is not
\* sent is written 0 or {} here and never read).
FlightData(given) ==
    [route : IF "route" \in given THEN DOMAIN routes ELSE {0},
     airplane : IF "airplane" \in given THEN DOMAIN airplanes ELSE {0},
     crew : IF "crew" \in given THEN SUBSET CrewIds ELSE {{}},
     departure_time : IF "departure_time" \in given THEN Times ELSE {0},
     arrival_time : IF "arrival_time" \in given THEN Times ELSE {0}]

\* PUT (every field given) or PATCH (some fields given) /flights/<id>/ :
\* is_valid on the given fields, then the scalar fields are set on the
\* instance and saved, then the crew rows are replaced.
PutPatchFlight(f, given, data) ==
    /\ f \in DOMAIN flights
    /\ given \subseteq FlightFields /\ given # {}
    /\ LET old == flights[f]
           rec == [k \in FlightFields |->
                     IF k \in given THEN data[k] ELSE old[k]]
           op == IF given = FlightFields THEN "put_flight"
                 ELSE "patch_flight"
       IN  IF FlightSerializerOk(rec, given) /\ FlightClean(rec)
           THEN /\ flights' = [flights EXCEPT ![f] = rec]
                /\ resp' = [op |-> op, id |-> f, body |-> rec,
                            status |-> 200]
           ELSE /\ flights' = flights
                /\ resp' = [op |-> op, id |-> f, body |-> rec,
                            status |-> 400]
    /\ UNCHANGED <<airplanes, store, callVars, probe, side, refdata, seq, fq>>

\* -------------------------------------------------------------- crew
\* POST /crews/ {first_name, last_name} : no uniqueness on Crew
CreateCrew(first, last) ==
    /\ seq.crew <= MaxCrew
    /\ crews' = Put(crews, seq.crew,
                    [first_name |-> first, last_name |-> last])
    /\ seq' = [seq EXCEPT !.crew = @ + 1]
    /\ UNCHANGED <<catalog, store, callVars, probe, side, airports, routes,
                   resp, fq>>

\* POST /crews/ with the names of the first crew member
PostCrew == CreateCrew(1, 1)

\* DELETE /crews/<id>/ : the rows of the flight_crew table that point at the
\* member go with it, the Flights stay.
DeleteCrew(k) ==
    /\ k \in DOMAIN crews
    /\ crews' = Drop(crews, k)
    /\ flights' = [f \in DOMAIN flights |->
                     [flights[f] EXCEPT !.crew = @ \ {k}]]
    /\ UNCHANGED <<airplanes, store, callVars, probe, side, airports, routes,
                   seq, resp, fq>>

\* ---------------------------------------------------------- permissions
Roles == {"anonymous", "user", "admin"}
Resources == {"airport", "route", "airplane", "airplane_type", "crew",
              "flight", "order"}
Methods == {"GET", "POST", "PUT", "PATCH", "DELETE"}
SafeMethods == {"GET"}

\* The permission of the catalog viewsets: staff may do anything, another
\* authenticated user may read, an anonymous client may do nothing.
CatalogPermission(r, method) ==
    \/ r = "admin"
    \/ r = "user" /\ method \in SafeMethods

\* OrderViewSet.permission_classes = (IsAuthenticated,)
OrderPermissionAllowAny(r) == TRUE
OrderPermission(r) == r # "anonymous"

Allowed(r, resource, method) ==
    IF resource = "order" THEN OrderPermission(r)
    ELSE CatalogPermission(r, method)

\* permission_denied: NotAuthenticated (401) for a client that did not
\* authenticate, PermissionDenied (403) otherwise
DeniedStatus(r) == IF r = "anonymous" THEN 401 ELSE 403

\* Another client takes over: the next requests come from role r.
Login(r) ==
    /\ r # role
    /\ role' = r
    /\ UNCHANGED <<catalog, store, callVars, probe, rest, airplane_types>>

\* A request that check_permissions refuses: the handler does not run.
Denied(resource, method) ==
    /\ ~Allowed(role, resource, method)
    /\ resp' = [op |-> "denied", role |-> role, resource |-> resource,
                method |-> method, status |-> DeniedStatus(role)]
    /\ UNCHANGED <<catalog, store, callVars, probe, side, refdata, seq, fq>>

\* A list or retrieve request that is let through.
Read(resource) ==
    /\ Allowed(role, resource, "GET")
    /\ resp' = [op |-> "read", role |-> role, resource |-> resource,
                method |-> "GET", status |-> 200]
    /\ UNCHANGED <<catalog, store, callVars, probe, side, refdata, seq, fq>>

\* ------------------------------------------------ GET /flights/ filters
\* An integer-list parameter is written as its pieces between the commas:
\* "1,2" is <<"1", "2">>, "1," is <<"1", "">>, the empty string is <<"">>.
\* An absent parameter is <<>>.
Pieces == {"1", "2", "x", ""}
IntListStrings == UNION {[1..n -> Pieces] : n \in 0..MaxPieces}
\* `if flight_source:` -- None and the empty string are skipped
Given(s) == s # <<>> /\ s # <<"">>
\* int(str_id) raises ValueError
IsInt(p) == p \in {"1", "2"}
ParseInt(p) == CASE p = "1" -> 1 [] p = "2" -> 2
\* _params_to_ints returns the list / raises
IntsOk(s) == \A i \in DOMAIN s : IsInt(s[i])
ParamsToInts(s) == {ParseInt(s[i]) : i \in DOMAIN s}
\* the key of the ValidationError that _params_to_ints raises
ParamsToIntsErrorKey == "flight_source"

\* A date-time parameter is written as its numbers between the separators
\* of "%Y-%m-%d-%H:%M": <<Y, m, d, H, M>>; <<Y, m, d>> is a date without a
\* time. strptime raises ValueError unless all five are there and in range.
DateStrings ==
    {<<>>, <<1, 1, 1>>, <<1, 1, 1, 0, 0>>, <<1, 1, 1, 23, 59>>,
     <<1, 1, 2, 23, 59>>, <<1, 13, 1, 0, 0>>, <<1, 1, 1, 24, 0>>}
StrptimeOk(s) ==
    /\ Len(s) = 5
    /\ s[1] >= 1
    /\ s[2] \in 1..12
    /\ s[3] \in 1..31
    /\ s[4] \in 0..23
    /\ s[5] \in 0..59
\* the date of a parsed parameter, and of a Flight timestamp (timestamp t is
\* on day t of month 1 of year 1)
DateOfParam(s) == <<s[1], s[2], s[3]>>
DateOf(t) == <<1, 1, t>>

\* FlightViewSet.get_queryset for the list action: the parameters are parsed
\* in this order and the first failure is raised.
FlightListError(q) ==
    IF Given(q.flight_source) /\ ~IntsOk(q.flight_source)
    THEN ParamsToIntsErrorKey
    ELSE IF Given(q.flight_destination) /\ ~IntsOk(q.flight_destination)
    THEN ParamsToIntsErrorKey
    ELSE IF q.departure_time # <<>> /\ ~StrptimeOk(q.departure_time)
    THEN "departure_time"
    ELSE IF q.arrival_time # <<>> /\ ~StrptimeOk(q.arrival_time)
    THEN "arrival_time"
    ELSE "ok"
FlightListIdsNoDestination(q) ==
    {f \in DOMAIN flights :
        /\ Given(q.flight_source)
           => routes[flights[f].route].source
                 \in ParamsToInts(q.flight_source)
        /\ q.departure_time # <<>>
           => DateOf(flights[f].departure_time)
                 = DateOfParam(q.departure_time)
        /\ q.arrival_time # <<>>
           => DateOf(flights[f].arrival_time) = DateOfParam(q.arrival_time)}
FlightListIds(q) ==
    {f \in DOMAIN flights :
        /\ Given(q.flight_source)
           => routes[flights[f].route].source
                 \in ParamsToInts(q.flight_source)
        /\ Given(q.flight_destination)
           => routes[flights[f].route].destination
                 \in ParamsToInts(q.flight_destination)
        /\ q.departure_time # <<>>
           => DateOf(flights[f].departure_time)
                 = DateOfParam(q.departure_time)
        /\ q.arrival_time # <<>>
           => DateOf(flights[f].arrival_time) = DateOfParam(q.arrival_time)}

\* GET /flights/?flight_source=..&flight_destination=..&departure_time=..
\* &arrival_time=..
ListFlights ==
    /\ fq.out = "none"
    /\ fq' = [fq EXCEPT
                !.out = FlightListError(fq),
                !.ids = IF FlightListError(fq) = "ok"
                        THEN FlightListIds(fq) ELSE {}]
    /\ UNCHANGED <<catalog, store, callVars, probe, side, refdata, seq, resp>>

\* ------------------------------------------------ GET /flights/<id>/
\* FlightViewSet.get_queryset annotates tickets_available for the list
\* action only.
Annotated(action) == action = "list"

\* FlightRetrieveSerializer.Meta.fields
FlightRetrieveFields ==
    {"id", "route", "airplane", "departure_time", "arrival_time", "crew",
     "tickets_available", "sold_tickets"}

\* Serializer.to_representation: a read-only field whose attribute the
\* instance does not have is skipped, its key is not in the output.
\* tickets_available is an attribute of an annotated row only.
RepresentedFields(action) ==
    {k \in FlightRetrieveFields :
        k = "tickets_available" => Annotated(action)}

\* sold_tickets: TicketShortSerializer(many=True, source="tickets")
SoldTickets(f) == {<<t.row, t.seat>> : t \in {s \in tickets : s.flight = f}}

FlightRepresentation(f, action) ==
    [k \in RepresentedFields(action) |->
        CASE k = "id" -> f
          [] k = "tickets_available" -> TicketsAvailable(f)
          [] k = "sold_tickets" -> SoldTickets(f)
          [] OTHER -> flights[f][k]]

\* GET /flights/<id>/
RetrieveFlight(f) ==
    /\ IF f \in DOMAIN flights
       THEN resp' = [op |-> "retrieve_flight", id |-> f,
                     body |-> FlightRepresentation(f, "retrieve"),
                     status |-> 200]
       ELSE resp' = [op |-> "retrieve_flight", id |-> f, body |-> <<>>,
                     status |-> 404]
    /\ UNCHANGED <<catalog, store, callVars, probe, side, refdata, seq, fq>>

\* ------------------------------------------------ admin deletions
\* Model.delete() follows the on_delete=CASCADE foreign keys that point AT
\* the deleted rows: Ticket.flight for a Flight, Flight.route and
\* Flight.airplane, Route.source and Route.destination. Nothing points from
\* a Ticket to its Order that way, so Orders stay.
\* The rows of Flights F go, with their Tickets.
FlightsGoneKeepTickets(F) ==
    /\ flights' = [f \in (DOMAIN flights) \ F |-> flights[f]]
    /\ tickets' = tickets
    /\ orders' = orders
FlightsGone(F) ==
    /\ flights' = [f \in (DOMAIN flights) \ F |-> flights[f]]
    /\ tickets' = {t \in tickets : t.flight \notin F}
    /\ orders' = orders
\* An open transaction that has inserted a Ticket of the flight holds a key
\* lock on the Flight row: the DELETE waits for it.
FlightsHeld(F) ==
    \E c \in Calls : \E t \in Range(pend[c]) : t.flight \in F
FlightsOfAirplanes(A) == {f \in DOMAIN flights : flights[f].airplane \in A}
FlightsOfRoutes(R) == {f \in DOMAIN flights : flights[f].route \in R}
RoutesOfAirport(p) ==
    {r \in DOMAIN routes : routes[r].source = p \/ routes[r].destination = p}

\* DELETE /flights/<id>/
DeleteFlight(f) ==
    /\ f \in DOMAIN flights
    /\ ~FlightsHeld({f})
    /\ FlightsGone({f})
    /\ UNCHANGED <<airplanes, callVars, probe, side, rest>>

\* DELETE /airplanes/<id>/
DeleteAirplane(a) ==
    /\ a \in DOMAIN airplanes
    /\ ~FlightsHeld(FlightsOfAirplanes({a}))
    /\ airplanes' = Drop(airplanes, a)
    /\ FlightsGone(FlightsOfAirplanes({a}))
    /\ UNCHANGED <<callVars, probe, side, rest>>

\* DELETE /airplane-types/<id>/
DeleteAirplaneType(ty) ==
    /\ ty \in DOMAIN airplane_types
    /\ ~FlightsHeld(FlightsOfType(ty))
    /\ airplane_types' = Drop(airplane_types, ty)
    /\ airplanes' = [a \in {b \in DOMAIN airplanes :
                                airplanes[b].airplane_type # ty}
                       |-> airplanes[a]]
    /\ FlightsGone(FlightsOfType(ty))
    /\ UNCHANGED <<callVars, probe, role, rest>>

\* DELETE /routes/<id>/
DeleteRoute(r) ==
    /\ r \in DOMAIN routes
    /\ ~FlightsHeld(FlightsOfRoutes({r}))
    /\ routes' = Drop(routes, r)
    /\ FlightsGone(FlightsOfRoutes({r}))
    /\ UNCHANGED <<airplanes, callVars, probe, side, airports, crews, seq,
                   resp, fq>>

\* DELETE /airports/<id>/
DeleteAirport(p) ==
    /\ p \in DOMAIN airports
    /\ ~FlightsHeld(FlightsOfRoutes(RoutesOfAirport(p)))
    /\ airports' = Drop(airports, p)
    /\ routes' = [r \in (DOMAIN routes) \ RoutesOfAirport(p) |-> routes[r]]
    /\ FlightsGone(FlightsOfRoutes(RoutesOfAirport(p)))
    /\ UNCHANGED <<airplanes, callVars, probe, side, crews, seq, resp, fq>>

\* ------------------------------------------- stand-alone validate_ticket
ProbeRows == 1..(MaxRows + 1)
ProbeSeats == 1..(MaxSeatsInRow + 1)
ProbeRowVals == (0 - 1)..(MaxRows + 2)
ProbeSeatVals == (0 - 1)..(MaxSeatsInRow + 2)

RunValidateTicket ==
    /\ probe.out = "none"
    /\ probe' = [probe EXCEPT !.out =
                   IF Accepts(probe.row, probe.seat,
                              [rows |-> probe.rows,
                               seats_in_row |-> probe.seats_in_row])
                   THEN "accepted" ELSE "raised",
                   !.to_rise =
                   ValidateTicket(probe.row, probe.seat,
                                  [rows |-> probe.rows,
                                   seats_in_row |-> probe.seats_in_row])]
    /\ UNCHANGED <<catalog, store, callVars, rest, side>>

\* ------------------------------------------------------ specifications
InitCalls ==
    /\ pc = [c \in Calls |-> "idle"]
    /\ usr = [c \in Calls |-> 1]
    /\ req = [c \in Calls |-> <<>>]
    /\ oid = [c \in Calls |-> 0]
    /\ pend = [c \in Calls |-> <<>>]
    /\ err = [c \in Calls |-> "none"]
    /\ failAt = [c \in Calls |-> {}]

NoResp == [op |-> "none", status |-> 0]
NoQuery == [flight_source |-> <<>>, flight_destination |-> <<>>,
            departure_time |-> <<>>, arrival_time |-> <<>>, out |-> "none",
            ids |-> {}]
InitIO ==
    /\ probe = NoProbe
    /\ resp = NoResp
    /\ fq = NoQuery

\* Reference data: the airports, one route between the first two of them,
\* one crew member and one airplane type; the client is staff.
InitRefData ==
    /\ airports = [p \in AirportIds |-> [name |-> p]]
    /\ routes = [r \in {1} |->
                   [source |-> 1, destination |-> 2, distance |-> 1]]
    /\ crews = [k \in {1} |-> [first_name |-> 1, last_name |-> 1]]
    /\ seq = [route |-> 2, flight |-> 1, crew |-> 2,
              airport |-> NAirports + 1, airplane |-> 1, airplane_type |-> 2]
    /\ airplane_types = [ty \in {1} |-> [name |-> 1]]
    /\ role = "admin"

\* The reference data, and no airplane, flight, order or ticket.
Init ==
    /\ airplanes = <<>>
    /\ flights = <<>>
    /\ orders = <<>>
    /\ tickets = {}
    /\ nextId = 1
    /\ InitCalls
    /\ InitRefData
    /\ InitIO

Next ==
    \/ \E r \in 0..MaxRows, s \in 0..MaxSeatsInRow : CreateAirplane(r, s)
    \/ \E a \in AirplaneIds, r \in 0..MaxRows, s \in 0..MaxSeatsInRow :
          UpdateAirplane(a, r, s)
    \/ \E a \in AirplaneIds : CreateFlight(a)
    \/ \E f \in FlightIds, a \in AirplaneIds : UpdateFlight(f, a)
    \/ \E c \in Calls, u \in Users, reqs \in TicketLists :
          CreateOrder(c, u, reqs)
    \/ \E c \in Calls : InsertTicket(c)
    \/ \E c \in Calls : AbortDeadlock(c)
    \/ \E c \in Calls : Commit(c)
    \/ \E u \in Users, o \in 1..NCalls : DeleteOrder(u, o)

Spec == Init /\ [][Next]_vars

\* Concurrent create_order requests against a fixed catalog: every flight
\* on one MaxRows x MaxSeatsInRow airplane, seat (1, 1) of flight 1 either
\* free or already sold to user 1 by order 1.
InitCreate ==
    /\ airplanes = [a \in {1} |->
                      [name |-> a, rows |-> MaxRows,
                       seats_in_row |-> MaxSeatsInRow, airplane_type |-> 1]]
    /\ flights = [f \in FlightIds |->
                    [route |-> 1, airplane |-> 1, crew |-> {1},
                     departure_time |-> 1, arrival_time |-> 2]]
    /\ \/ /\ orders = <<>>
          /\ tickets = {}
          /\ nextId = 1
       \/ /\ orders = [o \in {1} |-> [user |-> 1]]
          /\ tickets = {[id |-> <<1, 1>>, flight |-> 1, row |-> 1,
                         seat |-> 1, order |-> 1]}
          /\ nextId = 2
    /\ InitCalls
    /\ InitRefData
    /\ resp = NoResp
    /\ fq = NoQuery
    /\ probe = NoProbe

NextCreate ==
    \/ \E c \in Calls, u \in Users, reqs \in TicketLists :
          CreateOrder(c, u, reqs)
    \/ \E c \in Calls : InsertTicket(c)
    \/ \E c \in Calls : AbortDeadlock(c)
    \/ \E c \in Calls : Commit(c)

SpecCreate == InitCreate /\ [][NextCreate]_vars

\* Stand-alone calls of Ticket.validate_ticket on every small input.
InitValidate ==
    /\ airplanes = <<>>
    /\ flights = <<>>
    /\ orders = <<>>
    /\ tickets = {}
    /\ nextId = 1
    /\ InitCalls
    /\ InitRefData
    /\ resp = NoResp
    /\ fq = NoQuery
    /\ probe \in [row : ProbeRowVals, seat : ProbeSeatVals,
                  rows : ProbeRows, seats_in_row : ProbeSeats,
                  out : {"none"}, to_rise : {{}}]

NextValidate == RunValidateTicket

\* Orders of one ticket each next to the admin's updates and deletions of
\* flights, airplanes, routes and airports: two airplanes, one flight on
\* each, both on the one route. With one ticket per order no two requests
\* wait for each other.
InitAdmin ==
    /\ airplanes = [a \in AirplaneIds |->
                      [name |-> a, rows |-> MaxRows,
                       seats_in_row |-> MaxSeatsInRow, airplane_type |-> 1]]
    /\ flights = [f \in FlightIds |->
                    [route |-> 1, airplane |-> f, crew |-> {1},
                     departure_time |-> 1, arrival_time |-> 2]]
    /\ orders = <<>>
    /\ tickets = {}
    /\ nextId = 1
    /\ InitCalls
    /\ InitRefData
    /\ InitIO

NextAdmin ==
    \/ \E c \in Calls, u \in Users, reqs \in [1..1 -> TicketRequest] :
          CreateOrder(c, u, reqs)
    \/ \E c \in Calls : InsertTicket(c)
    \/ \E c \in Calls : Commit(c)
    \/ \E u \in Users, o \in 1..NCalls : DeleteOrder(u, o)
    \/ \E a \in AirplaneIds, r \in 1..MaxRows, s \in 1..MaxSeatsInRow :
          UpdateAirplane(a, r, s)
    \/ \E f \in FlightIds, a \in AirplaneIds : UpdateFlight(f, a)
    \/ \E f \in FlightIds : DeleteFlight(f)
    \/ \E a \in AirplaneIds : DeleteAirplane(a)
    \/ \E r \in RouteIds : DeleteRoute(r)
    \/ \E p \in AirportIds : DeleteAirport(p)

SpecAdmin == InitAdmin /\ [][NextAdmin]_vars

\* The route endpoints over the airports of the reference data, one flight
\* on the first route.
InitRoutes ==
    /\ airplanes = [a \in {1} |->
                      [name |-> a, rows |-> MaxRows,
                       seats_in_row |-> MaxSeatsInRow, airplane_type |-> 1]]
    /\ flights = [f \in {1} |->
                    [route |-> 1, airplane |-> 1, crew |-> {1},
                     departure_time |-> 1, arrival_time |-> 2]]
    /\ orders = <<>>
    /\ tickets = {}
    /\ nextId = 1
    /\ InitCalls
    /\ InitRefData
    /\ InitIO

NextRoutes ==
    \/ \E src, dst \in AirportIds, dist \in 0..MaxDistance :
          PostRoute(src, dst, dist)
    \/ \E r \in RouteIds, given \in SUBSET RouteFields,
          src, dst \in AirportIds, dist \in 0..MaxDistance :
          UpdateRoute(r, given, src, dst, dist)
    \/ \E r \in RouteIds : DeleteRoute(r)

SpecRoutes == InitRoutes /\ [][NextRoutes]_vars

\* The flight and crew endpoints: one airplane, the route and the crew
\* member of the reference data, no flight yet.
InitFlights ==
    /\ airplanes = [a \in {1} |->
                      [name |-> a, rows |-> MaxRows,
                       seats_in_row |-> MaxSeatsInRow, airplane_type |-> 1]]
    /\ flights = <<>>
    /\ orders = <<>>
    /\ tickets = {}
    /\ nextId = 1
    /\ InitCalls
    /\ InitRefData
    /\ InitIO

\* The field sets sent: all of them (PUT), or some of crew and the two
\* timestamps (PATCH).
FlightGiven ==
    {FlightFields}
    \cup ((SUBSET {"crew", "departure_time", "arrival_time"}) \ {{}})

NextFlights ==
    \/ \E r \in 1..1, a \in 1..1, crew \in SUBSET CrewIds,
          dep, arr \in Times : PostFlight(r, a, crew, dep, arr)
    \/ \E f \in FlightIds, given \in FlightGiven :
          \E data \in FlightData(given) : PutPatchFlight(f, given, data)
    \/ \E f \in FlightIds : DeleteFlight(f)
    \/ PostCrew
    \/ \E k \in CrewIds : DeleteCrew(k)

SpecFlights == InitFlights /\ [][NextFlights]_vars

\* One GET /flights/ request for every combination of the four filter
\* parameters, against two flights: flight 1 on the route 1 -> 2 from day 1
\* to day 2, flight 2 back on the route 2 -> 1 from day 2 to day 3.
InitFilter ==
    /\ airplanes = [a \in {1} |->
                      [name |-> a, rows |-> MaxRows,
                       seats_in_row |-> MaxSeatsInRow, airplane_type |-> 1]]
    /\ flights = [f \in 1..2 |->
                    [route |-> f, airplane |-> 1, crew |-> {1},
                     departure_time |-> f, arrival_time |-> f + 1]]
    /\ orders = <<>>
    /\ tickets = {}
    /\ nextId = 1
    /\ InitCalls
    /\ airports = [p \in AirportIds |-> [name |-> p]]
    /\ routes = [r \in 1..2 |->
                   [source |-> r, destination |-> 3 - r, distance |-> 1]]
    /\ crews = [k \in {1} |-> [first_name |-> 1, last_name |-> 1]]
    /\ seq = [route |-> 3, flight |-> 3, crew |-> 2,
              airport |-> NAirports + 1, airplane |-> 2, airplane_type |-> 2]
    /\ airplane_types = [ty \in {1} |-> [name |-> 1]]
    /\ role = "admin"
    /\ probe = NoProbe
    /\ resp = NoResp
    /\ fq \in [flight_source : IntListStrings,
                flight_destination : IntListStrings,
                departure_time : DateStrings,
                arrival_time : DateStrings,
                out : {"none"}, ids : {{}}]

NextFilter == ListFlights

SpecFilter == InitFilter /\ [][NextFilter]_vars

\* The admin's writes to airports, airplane types, airplanes and crew: two
\* airports and the route between them, one airplane type, one airplane of
\* it with one flight, one crew member.
InitCatalog ==
    /\ airplanes = [a \in {1} |->
                      [name |-> a, rows |-> MaxRows,
                       seats_in_row |-> MaxSeatsInRow, airplane_type |-> 1]]
    /\ flights = [f \in {1} |->
                    [route |-> 1, airplane |-> 1, crew |-> {1},
                     departure_time |-> 1, arrival_time |-> 2]]
    /\ orders = <<>>
    /\ tickets = {}
    /\ nextId = 1
    /\ InitCalls
    /\ airports = [p \in AirportIds |-> [name |-> p]]
    /\ routes = [r \in {1} |->
                   [source |-> 1, destination |-> 2, distance |-> 1]]
    /\ crews = [k \in {1} |-> [first_name |-> 1, last_name |-> 1]]
    /\ seq = [route |-> 2, flight |-> 2, crew |-> 2,
              airport |-> NAirports + 1, airplane |-> 2, airplane_type |-> 2]
    /\ airplane_types = [ty \in {1} |-> [name |-> 1]]
    /\ role = "admin"
    /\ InitIO

\* Names: airports, airplane types, airplanes (of the one geometry, PATCH
\* of the name alone) and crew members are created, renamed and deleted.
NextNames ==
    \/ \E name \in Names : PostAirport(name)
    \/ \E p \in 1..(NAirports + 1), name \in Names : UpdateAirport(p, name)
    \/ \E p \in 1..(NAirports + 1) : DeleteAirport(p)
    \/ \E name \in Names : PostAirplaneType(name)
    \/ \E ty \in 1..MaxNames, name \in Names : UpdateAirplaneType(ty, name)
    \/ \E ty \in 1..MaxNames : DeleteAirplaneType(ty)
    \/ \E name \in Names, ty \in 1..MaxNames :
          PostAirplane(name, MaxRows, MaxSeatsInRow, ty)
    \/ \E a \in AirplaneIds : \E data \in AirplaneData({"name"}) :
          PutPatchAirplane(a, {"name"}, data)
    \/ \E a \in AirplaneIds : DeleteAirplane(a)
    \/ PostCrew
    \/ \E k \in CrewIds : DeleteCrew(k)

SpecNames == InitCatalog /\ [][NextNames]_vars

\* Airplanes: created, updated (PUT and PATCH) and deleted with every small
\* geometry, under the one airplane type.
NextAirplanes ==
    \/ \E name \in Names, rows \in 0..MaxRows, seats \in 0..MaxSeatsInRow,
          ty \in 1..MaxNames : PostAirplane(name, rows, seats, ty)
    \/ \E a \in AirplaneIds, given \in (SUBSET AirplaneFields) \ {{}} :
          \E data \in AirplaneData(given) : PutPatchAirplane(a, given, data)
    \/ \E a \in AirplaneIds : DeleteAirplane(a)

SpecAirplanes == InitCatalog /\ [][NextAirplanes]_vars

\* Every endpoint behind its permission check, the client changing between
\* anonymous, authenticated and staff.  Each catalog resource has its delete
\* and one create or update, so that POST, PUT, PATCH and DELETE all occur;
\* the order requests are those of one user.
NextPermissions ==
    \/ \E r \in Roles : Login(r)
    \/ \E res \in Resources, m \in Methods : Denied(res, m)
    \/ \E res \in Resources : Read(res)
    \/ CatalogPermission(role, "POST") /\ PostAirport(1)
    \/ CatalogPermission(role, "DELETE") /\ DeleteAirport(1)
    \/ CatalogPermission(role, "PUT") /\ UpdateAirplaneType(1, 2)
    \/ CatalogPermission(role, "DELETE") /\ DeleteAirplaneType(1)
    \/ CatalogPermission(role, "PATCH")
          /\ \E data \in AirplaneData({"rows"}) :
                PutPatchAirplane(1, {"rows"}, data)
    \/ CatalogPermission(role, "DELETE") /\ DeleteAirplane(1)
    \/ CatalogPermission(role, "PATCH")
          /\ UpdateRoute(1, {"distance"}, 0, 0, MaxDistance)
    \/ CatalogPermission(role, "DELETE") /\ DeleteRoute(1)
    \/ CatalogPermission(role, "POST") /\ PostCrew
    \/ CatalogPermission(role, "DELETE") /\ DeleteCrew(1)
    \/ CatalogPermission(role, "POST") /\ PostFlight(1, 1, {1}, 1, 2)
    \/ CatalogPermission(role, "DELETE") /\ DeleteFlight(1)
    \/ OrderPermission(role)
          /\ CreateOrder(1, 1, <<[flight |-> 1, row |-> 1, seat |-> 1]>>)
    \/ InsertTicket(1)
    \/ Commit(1)
    \/ OrderPermission(role) /\ DestroyOrder(1, 1)
    \/ OrderPermission(role) /\ UpdateOrder(1, 1, "PUT")

SpecPermissions == InitCatalog /\ [][NextPermissions]_vars

\* The order endpoints against one flight on a MaxRows x MaxSeatsInRow
\* airplane.
InitOrderApi ==
    /\ airplanes = [a \in {1} |->
                      [name |-> a, rows |-> MaxRows,
                       seats_in_row |-> MaxSeatsInRow, airplane_type |-> 1]]
    /\ flights = [f \in {1} |->
                    [route |-> 1, airplane |-> 1, crew |-> {1},
                     departure_time |-> 1, arrival_time |-> 2]]
    /\ orders = <<>>
    /\ tickets = {}
    /\ nextId = 1
    /\ InitCalls
    /\ InitRefData
    /\ InitIO

OrderIds == 1..NCalls

NextOrderApi ==
    \/ \E c \in Calls, u \in Users, reqs \in TicketLists :
          CreateOrder(c, u, reqs)
    \/ \E c \in Calls, u \in Users : CreateOrderNoTickets(c, u)
    \/ \E c \in Calls : InsertTicket(c)
    \/ \E c \in Calls : AbortDeadlock(c)
    \/ \E c \in Calls : Commit(c)
    \/ \E u \in Users, o \in OrderIds : DestroyOrder(u, o)
    \/ \E u \in Users, o \in OrderIds, m \in {"PUT", "PATCH"} :
          UpdateOrder(u, o, m)

SpecOrderApi == InitOrderApi /\ [][NextOrderApi]_vars

\* The foreign keys: rows of every model are created and re-pointed with
\* ids that exist or not, a ticket is ordered by one call, and rows of
\* every model are deleted.
NextIntegrity ==
    \/ \E f \in FlightIds :
          CreateOrder(1, 1, <<[flight |-> f, row |-> 1, seat |-> 1]>>)
    \/ InsertTicket(1)
    \/ Commit(1)
    \/ DeleteOrder(1, 1)
    \/ PostAirplaneType(MaxNames)
    \/ \E ty \in 1..MaxNames :
          PostAirplane(MaxNames, MaxRows, MaxSeatsInRow, ty)
    \/ \E data \in AirplaneData({"airplane_type"}) :
          PutPatchAirplane(1, {"airplane_type"}, data)
    \/ PostRoute(2, 1, 1)
    \/ \E src \in AirportIds : UpdateRoute(1, {"source"}, src, 0, 0)
    \/ \E r \in 1..2, a \in AirplaneIds : PostFlight(r, a, {1}, 1, 2)
    \/ \E given \in {{"route"}, {"airplane"}} :
          \E data \in FlightData(given) : PutPatchFlight(1, given, data)
    \/ \E f \in FlightIds : DeleteFlight(f)
    \/ \E a \in AirplaneIds : DeleteAirplane(a)
    \/ \E ty \in 1..MaxNames : DeleteAirplaneType(ty)
    \/ \E r \in RouteIds : DeleteRoute(r)
    \/ \E p \in AirportIds : DeleteAirport(p)

SpecIntegrity == InitCatalog /\ [][NextIntegrity]_vars

\* The detail of a flight read while its seats are ordered and the orders
\* deleted.
NextRetrieve ==
    \/ \E c \in Calls, u \in Users, reqs \in TicketLists :
          CreateOrder(c, u, reqs)
    \/ \E c \in Calls : InsertTicket(c)
    \/ \E c \in Calls : AbortDeadlock(c)
    \/ \E c \in Calls : Commit(c)
    \/ \E u \in Users, o \in OrderIds : DeleteOrder(u, o)
    \/ \E f \in FlightIds : RetrieveFlight(f)

SpecRetrieve == InitOrderApi /\ [][NextRetrieve]_vars

\* create_order requests whose payload may carry a "user" key next to the
\* tickets.
OrderPayloads ==
    [tickets : TicketLists] \cup [tickets : TicketLists, user : Users]

NextOwner ==
    \/ \E c \in Calls, u \in Users, payload \in OrderPayloads :
          PostOrderPayload(c, u, payload)
    \/ \E c \in Calls : InsertTicket(c)
    \/ \E c \in Calls : AbortDeadlock(c)
    \/ \E c \in Calls : Commit(c)
    \/ \E u \in Users, o \in OrderIds : DeleteOrder(u, o)

SpecOwner == InitOrderApi /\ [][NextOwner]_vars

SpecValidate == InitValidate /\ [][NextValidate]_vars

TypeOK ==
    /\ DOMAIN airplanes \subseteq AirplaneIds
    /\ DOMAIN flights \subseteq FlightIds
    /\ \A c \in Calls : pc[c] \in {"idle", "rejected", "in_txn", "done", "failed"}

\* ===================================================== checked properties
Opened(c) == pc[c] \in {"in_txn", "done", "failed"}
Finished(c) == pc[c] \in {"done", "failed"}
ReqKeys(c) == Keys(Range(req[c]))
NoRepeat(c) ==
    \A i, j \in DOMAIN req[c] : Key(req[c][i]) = Key(req[c][j]) => i = j
\* nothing of request c is in the committed tables
NothingPersisted(c) ==
    /\ oid[c] \notin DOMAIN orders
    /\ \A t \in tickets : t.order # oid[c]
\* every ticket request of c is a committed Ticket of c's Order
AllPersisted(c) ==
    /\ oid[c] \in DOMAIN orders
    /\ \A i \in DOMAIN req[c] :
          \E t \in tickets : /\ Key(t) = Key(req[c][i])
                             /\ t.order = oid[c]
\* Tickets sold before any of the requests: their Order is of no request
PreSold == {t \in tickets : \A c \in Calls : t.order # oid[c]}

\* C1: no double booking -- in every reachable state at most one committed
\* Ticket has a given (flight, row, seat), whatever the interleaving of the
\* concurrent create_order requests.
NoDoubleBooking ==
    \A t1, t2 \in tickets : Key(t1) = Key(t2) => t1 = t2

\* C1 witness: a request lost the race for a seat that a committed Ticket
\* of another request's Order holds.
NoDoubleBookingWitness ==
    \E c, d \in Calls :
        /\ c # d
        /\ pc[c] = "failed" /\ err[c] = "conflict"
        /\ pc[d] = "done"
        /\ \E i \in failAt[c] : \E t \in tickets :
              Key(t) = Key(req[c][i]) /\ t.order = oid[d]

\* the requests that opened a transaction and ask for seat k
Group(k) == {c \in Calls : Opened(c) /\ k \in ReqKeys(c)}

OnlyRivals(G) ==
    \A c \in G :
        /\ NoRepeat(c)
        /\ ReqKeys(c) \cap Keys(PreSold) = {}
        /\ \A d \in Calls \ G : ReqKeys(c) \cap ReqKeys(d) = {}

OrderAtomicity ==
    [][/\ \A c \in Calls :
             (pc[c] # pc'[c] /\ pc'[c] \in {"rejected", "failed"})
             => (orders' = orders /\ tickets' = tickets)
       /\ \A c \in Calls :
             pc'[c] \in {"rejected", "in_txn", "failed"}
             => (/\ oid'[c] \notin DOMAIN orders'
                 /\ \A t \in tickets' : t.order # oid'[c])]_vars

\* C3 witness: a request of two tickets failed on its last one, a sold seat,
\* after its first Ticket was inserted.
OrderAtomicityWitness ==
    \E c \in Calls :
        /\ pc[c] = "failed" /\ err[c] = "conflict"
        /\ Len(req[c]) = 2 /\ failAt[c] = {2}
        /\ Key(req[c][1]) # Key(req[c][2])
        /\ \E t \in tickets : Key(t) = Key(req[c][2])
        /\ NothingPersisted(c)

\* C4: concurrent create_order requests whose seats are in bounds, unsold
\* and asked for by no other request never wait and never fail, and once
\* committed all their tickets are in the Ticket table.
DisjointOrdersSucceed ==
    \A c \in Calls :
        (/\ Opened(c)
         /\ NoRepeat(c)
         /\ ReqKeys(c) \cap Keys(PreSold) = {}
         /\ \A d \in Calls \ {c} : ReqKeys(c) \cap ReqKeys(d) = {})
        => /\ pc[c] # "failed"
           /\ Inserting(c) => ~SeatLocked(req[c][NextIndex(c)], c)
           /\ pc[c] = "done" => AllPersisted(c)

\* C4 witness: two requests for different seats of the same flight both
\* committed.
DisjointOrdersWitness ==
    \E c, d \in Calls :
        /\ c # d
        /\ pc[c] = "done" /\ pc[d] = "done"
        /\ ReqKeys(c) \cap ReqKeys(d) = {}
        /\ \E i \in DOMAIN req[c], j \in DOMAIN req[d] :
              req[c][i].flight = req[d][j].flight
        /\ AllPersisted(c) /\ AllPersisted(d)

\* C5: ticket bounds invariant -- after any sequence of order and catalog
\* operations every committed Ticket lies on the seat map of its flight's
\* airplane.
TicketBoundsInvariant ==
    \A t \in tickets :
        LET airplane == airplanes[flights[t.flight].airplane]
        IN  /\ 1 <= t.row /\ t.row <= airplane.rows
            /\ 1 <= t.seat /\ t.seat <= airplane.seats_in_row

\* C6: seat validation is exact -- validate_ticket raises nothing if and
\* only if 1 <= row <= rows and 1 <= seat <= seats_in_row.
ValidateTicketExact ==
    probe.out # "none" =>
        (probe.out = "accepted"
         <=> (/\ 1 <= probe.row /\ probe.row <= probe.rows
              /\ 1 <= probe.seat /\ probe.seat <= probe.seats_in_row))

\* C6 witness: the last seat of the last row of an airplane with more than
\* one row was validated and accepted.
ValidateTicketExactWitness ==
    /\ probe.out = "accepted"
    /\ probe.rows > 1
    /\ probe.row = probe.rows /\ probe.seat = probe.seats_in_row

\* C7: availability never goes negative -- for every flight, capacity minus
\* the number of its committed Tickets is >= 0 in every reachable state.
AvailabilityNonNegative ==
    \A f \in DOMAIN flights :
        airplanes[flights[f].airplane].rows
          * airplanes[flights[f].airplane].seats_in_row
          - Cardinality({t \in tickets : t.flight = f}) >= 0

\* number of ticket requests of request c for flight f
Requested(c, f) == Cardinality({i \in DOMAIN req[c] : req[c][i].flight = f})

\* C8: availability arithmetic -- tickets_available of a listed flight is
\* rows * seats_in_row minus the number of its committed Tickets; the commit
\* of an order lowers it by the number k of tickets ordered on the flight,
\* and deleting that order raises it by k.
AvailabilityArithmetic ==
    [][\A f \in DOMAIN flights :
          /\ TicketsAvailable(f) =
                airplanes[flights[f].airplane].rows
                  * airplanes[flights[f].airplane].seats_in_row
                  - Cardinality({t \in tickets : t.flight = f})
          /\ \A c \in Calls :
                /\ (pc[c] = "in_txn" /\ pc'[c] = "done")
                   => TicketsAvailable(f)' =
                         TicketsAvailable(f) - Requested(c, f)
                /\ (/\ pc[c] = "done"
                    /\ oid[c] \in DOMAIN orders
                    /\ oid[c] \notin DOMAIN orders')
                   => TicketsAvailable(f)' =
                         TicketsAvailable(f) + Requested(c, f)]_vars

\* C8 witness: an order of two tickets on a flight was committed and later
\* deleted, and the flight's airplane has all its seats available again.
AvailabilityArithmeticWitness ==
    \E c \in Calls : \E f \in DOMAIN flights :
        /\ pc[c] = "done"
        /\ Requested(c, f) = 2
        /\ oid[c] \notin DOMAIN orders
        /\ TicketsAvailable(f) = Capacity(flights[f].airplane)

\* C9: cascade delete frees seats -- the step that deletes an Order leaves
\* no Ticket of it and none of its seats taken, and a create_order request
\* is refused a seat only for a Ticket of one of the Orders that exist (or
\* of its own), so a later request for a freed seat succeeds.
CascadeDeleteFreesSeats ==
    [][/\ \A o \in (DOMAIN orders) \ (DOMAIN orders') :
             /\ \A t \in tickets' : t.order # o
             /\ \A t \in tickets :
                   t.order = o => Key(t) \notin Keys(tickets')
       /\ \A c \in Calls :
             (pc[c] = "in_txn" /\ pc'[c] = "failed" /\ err'[c] = "conflict")
             => LET t == req[c][NextIndex(c)]
                IN  \/ Key(t) \in Keys(Range(pend[c]))
                    \/ \E s \in tickets :
                          Key(s) = Key(t) /\ s.order \in DOMAIN orders]_vars

\* C9 witness: an order was deleted by its owner and another user's order
\* now holds one of its seats.
CascadeDeleteWitness ==
    \E c, d \in Calls :
        /\ pc[c] = "done" /\ oid[c] \notin DOMAIN orders
        /\ pc[d] = "done" /\ oid[d] \in DOMAIN orders
        /\ usr[c] # usr[d]
        /\ \E t \in tickets : t.order = oid[d] /\ Key(t) \in ReqKeys(c)

\* the Order table without the orders of user v
WithoutUser(ords, v) == [o \in {x \in DOMAIN ords : ords[x].user # v} |-> ords[o]]

\* C10: ownership isolation -- the order list of user u holds only orders of
\* u, retrieving an order of another user v gives NotFound, and what u lists
\* and retrieves is the same with and without the orders of v.
OwnershipIsolation ==
    \A u, v \in Users :
        u # v =>
            /\ \A o \in OrderList(orders, u) : orders[o].user = u
            /\ \A o \in DOMAIN orders :
                  orders[o].user = v => OrderRetrieve(orders, u, o) = "NotFound"
            /\ OrderList(orders, u) = OrderList(WithoutUser(orders, v), u)
            /\ \A o \in 1..(NCalls + 1) :
                  OrderRetrieve(orders, u, o)
                    = OrderRetrieve(WithoutUser(orders, v), u, o)

\* C10 witness: two users each own an order.
OwnershipIsolationWitness ==
    \E o1, o2 \in DOMAIN orders :
        /\ orders[o1].user # orders[o2].user
        /\ OrderList(orders, orders[o1].user) = {o1}

\* C11: delete_order on an order id that does not exist or that belongs to
\* another user answers NotFound (404, never 403) and leaves every Order and
\* every Ticket as it was.
DeleteForeignOrderNotFound ==
    [][\A u \in Users, o \in OrderIds :
         (/\ resp' # resp
          /\ resp'.op = "destroy" /\ resp'.user = u /\ resp'.order = o
          /\ (o \notin DOMAIN orders \/ orders[o].user # u))
         => (/\ resp'.status = 404
             /\ orders' = orders
             /\ tickets' = tickets)]_vars

\* C11 witness: a user was refused the deletion of another user's order,
\* which still has its tickets.
DeleteForeignOrderWitness ==
    /\ resp.op = "destroy" /\ resp.status = 404
    /\ resp.order \in DOMAIN orders
    /\ orders[resp.order].user # resp.user
    /\ OrderTickets(resp.order) # {}

\* C12: a create_order request whose ticket list is empty or missing is
\* rejected and persists nothing: every request that got as far as the
\* Order insert has at least one ticket request, and a rejection changes
\* no table and consumes no order id.
EmptyOrderRejected ==
    /\ [](\A c \in Calls : Opened(c) => Len(req[c]) >= 1)
    /\ [][\A c \in Calls :
            (pc[c] = "idle" /\ pc'[c] = "rejected")
            => UNCHANGED <<store, catalog, nextId, pend>>]_vars

\* C12 witness: one request was rejected for an empty list, another for a
\* missing list, and no Order exists.
EmptyOrderWitness ==
    /\ \E c, d \in Calls :
          /\ pc[c] = "rejected" /\ err[c] = "empty"
          /\ pc[d] = "rejected" /\ err[d] = "required"
    /\ orders = <<>> /\ tickets = {}

\* C14: PUT and PATCH on an order are rejected for every caller and leave
\* everything unchanged; only a committed create_order and a successful
\* delete_order change the Orders or the Tickets.
OrdersNotUpdatable ==
    [][/\ (resp' # resp /\ resp'.op \in {"update", "partial_update"})
          => (resp'.status = 405 /\ UNCHANGED <<store, catalog>>)
       /\ (orders' # orders \/ tickets' # tickets)
          => \/ \E c \in Calls : pc[c] = "in_txn" /\ pc'[c] = "done"
             \/ (resp' # resp /\ resp'.op = "destroy"
                 /\ resp'.status = 204)]_vars

\* C14 witness: a PATCH was answered 405 while the caller of the last
\* successful create still has the order and its tickets.
OrdersNotUpdatableWitness ==
    /\ resp.op = "partial_update" /\ resp.status = 405
    /\ \E c \in Calls : /\ pc[c] = "done"
                        /\ oid[c] \in DOMAIN orders
                        /\ Cardinality(OrderTickets(oid[c])) = Len(req[c])

\* C15: a successful create_order with N ticket requests adds exactly one
\* Order, owned by the caller, and exactly N Tickets, one per request and
\* all attached to the new Order; no other Order, Ticket, airplane or
\* flight changes.
CreateAddsOneOrderNTickets ==
    [][\A c \in Calls :
         (pc[c] = "in_txn" /\ pc'[c] = "done")
         => LET new == tickets' \ tickets
            IN  /\ oid[c] \notin DOMAIN orders
                /\ orders' = Put(orders, oid[c], [user |-> usr[c]])
                /\ tickets \subseteq tickets'
                /\ Cardinality(new) = Len(req[c])
                /\ \A i \in DOMAIN req[c] :
                      \E t \in new : /\ t.id = <<oid[c], i>>
                                     /\ Key(t) = Key(req[c][i])
                                     /\ t.order = oid[c]
                /\ UNCHANGED catalog]_vars

\* C15 witness: a create_order with MaxTickets requests succeeded after
\* an older Order was deleted.
CreateAddsWitness ==
    \E c \in Calls :
        /\ pc[c] = "done" /\ Len(req[c]) = MaxTickets
        /\ Cardinality(OrderTickets(oid[c])) = MaxTickets
        /\ oid[c] > 1 /\ DOMAIN orders = {oid[c]}

\* C13: every persisted Order owns at least one Ticket, after any sequence
\* of API operations, the admin's deletions and updates of flights,
\* airplanes, routes and airports included.
EveryOrderHasTicket ==
    \A o \in DOMAIN orders : OrderTickets(o) # {}

\* The three rules of the Route table T
RouteInvariant(T) ==
    \A r \in DOMAIN T :
        /\ T[r].source # T[r].destination
        /\ T[r].distance >= 1
        /\ \A q \in DOMAIN T :
              (T[q].source = T[r].source
               /\ T[q].destination = T[r].destination) => q = r
RouteOps == {"create_route", "put_route", "patch_route"}

\* C16: after any create, PUT, PATCH or delete of a route every Route has
\* source # destination, a unique ordered (source, destination) pair and
\* distance >= 1; a request whose outcome would break one of these is
\* rejected, and a rejected request leaves the Route table unchanged.
RouteRules ==
    /\ [](RouteInvariant(routes))
    /\ [][(resp' # resp /\ resp'.op \in RouteOps)
          => /\ ~RouteInvariant(Put(routes, resp'.id, resp'.body))
                => resp'.status = 400
             /\ resp'.status = 400 => routes' = routes]_vars

\* C16 witness: (A, B) and (B, A) exist side by side, and the last request,
\* a PATCH of the source alone that would have made a route's source equal
\* to its destination, was rejected.
RouteRulesWitness ==
    /\ \E r, q \in DOMAIN routes :
          /\ routes[r].source = routes[q].destination
          /\ routes[r].destination = routes[q].source
    /\ resp.op = "patch_route" /\ resp.status = 400
    /\ resp.body.source = resp.body.destination
    /\ resp.body.distance >= 1

FlightOps == {"create_flight", "put_flight", "patch_flight"}

\* C17: every Flight has departure_time < arrival_time in every reachable
\* state; a flight create, PUT or PATCH (of one timestamp alone too) whose
\* outcome would have departure_time >= arrival_time is rejected and leaves
\* the Flight table unchanged.
FlightWindow ==
    /\ [](\A f \in DOMAIN flights :
            flights[f].departure_time < flights[f].arrival_time)
    /\ [][(/\ resp' # resp
           /\ resp'.op \in FlightOps
           /\ resp'.body.departure_time >= resp'.body.arrival_time)
          => (resp'.status = 400 /\ flights' = flights)]_vars

\* C17 witness: a PATCH of the departure time alone, to the flight's own
\* arrival time, was rejected and the flight still has its old window.
FlightWindowWitness ==
    /\ resp.op = "patch_flight" /\ resp.status = 400
    /\ resp.id \in DOMAIN flights
    /\ resp.body.arrival_time = flights[resp.id].arrival_time
    /\ resp.body.departure_time = flights[resp.id].arrival_time
    /\ flights[resp.id].departure_time < flights[resp.id].arrival_time
    /\ resp.body.crew = flights[resp.id].crew /\ resp.body.crew # {}

\* C18: create_flight with an empty crew list is rejected and adds no
\* Flight, and after any flight create/update and crew create/delete every
\* persisted Flight has at least one Crew member.
EveryFlightHasCrew ==
    \A f \in DOMAIN flights : flights[f].crew # {}

\* C19: a create_flight whose route, airplane, crew, departure_time and
\* arrival_time all equal those of an existing Flight is rejected and
\* leaves the Flight table unchanged.
DuplicateFlightRejected ==
    [][(/\ resp' # resp
        /\ resp'.op = "create_flight"
        /\ \E f \in DOMAIN flights : flights[f] = resp'.body)
       => (resp'.status = 400 /\ flights' = flights)]_vars

FilterParams ==
    {"flight_source", "flight_destination", "departure_time", "arrival_time"}
\* the value of parameter p is given and is not of its format
Malformed(q, p) ==
    IF p \in {"flight_source", "flight_destination"}
    THEN Given(q[p]) /\ \E i \in DOMAIN q[p] : q[p][i] \notin {"1", "2"}
    ELSE q[p] # <<>> /\ ~(/\ Len(q[p]) = 5
                          /\ q[p][2] \in 1..12 /\ q[p][3] \in 1..31
                          /\ q[p][4] \in 0..23 /\ q[p][5] \in 0..59)

\* C20: for each of the four filter parameters of the flight list, a
\* malformed value makes the request fail with an error keyed by the name
\* of that parameter (checked on requests with one malformed parameter); in
\* particular a malformed flight_destination is reported under
\* flight_destination.
FilterErrorNamesParameter ==
    \A p \in FilterParams :
        (/\ fq.out # "none"
         /\ Malformed(fq, p)
         /\ \A o \in FilterParams \ {p} : ~Malformed(fq, o))
        => fq.out = p

\* how an id is written in a query string
Digit(n) == CASE n = 1 -> "1" [] n = 2 -> "2"
\* the ids named by an integer-list parameter
IdsNamed(s) == {n \in 1..2 : \E i \in DOMAIN s : s[i] = Digit(n)}

\* C21: flight-list filtering is the conjunction of the supplied filters:
\* the result is exactly the flights whose route source is in the
\* flight_source list, whose route destination is in the flight_destination
\* list, whose departure date is the departure_time date and whose arrival
\* date is the arrival_time date, each condition dropped when its parameter
\* is absent (not sent, or sent empty); the HH:MM of a date parameter does
\* not count.
FilterConjunction ==
    fq.out = "ok" =>
        fq.ids = {f \in DOMAIN flights :
                    /\ (fq.flight_source \in {<<>>, <<"">>}
                        \/ routes[flights[f].route].source
                              \in IdsNamed(fq.flight_source))
                    /\ (fq.flight_destination \in {<<>>, <<"">>}
                        \/ routes[flights[f].route].destination
                              \in IdsNamed(fq.flight_destination))
                    /\ (fq.departure_time = <<>>
                        \/ (/\ fq.departure_time[1] = 1
                            /\ fq.departure_time[2] = 1
                            /\ fq.departure_time[3]
                                  = flights[f].departure_time))
                    /\ (fq.arrival_time = <<>>
                        \/ (/\ fq.arrival_time[1] = 1
                            /\ fq.arrival_time[2] = 1
                            /\ fq.arrival_time[3]
                                  = flights[f].arrival_time))}

\* C21 witness: a request with all four filters, the departure one with a
\* time of day of 23:59, that matches flight 1 alone.
FilterConjunctionWitness ==
    /\ fq.out = "ok" /\ fq.ids = {1}
    /\ Given(fq.flight_source) /\ Given(fq.flight_destination)
    /\ Len(fq.departure_time) = 5 /\ fq.departure_time[4] = 23
    /\ Len(fq.arrival_time) = 5

\* the tables of the six catalog resources
CatalogTables == <<airports, routes, airplanes, airplane_types, crews, flights>>
CatalogWriteOps ==
    {"create_airport", "update_airport", "create_airplane_type",
     "update_airplane_type", "create_airplane", "put_airplane",
     "patch_airplane", "create_route", "put_route", "patch_route",
     "create_flight", "put_flight", "patch_flight"}

\* C22: only an admin changes the catalog. A step that changes an Airport,
\* Route, Airplane, AirplaneType, Crew or Flight table, or that answers a
\* catalog create or update, is a step of an admin; a refused request
\* answers 401 to an anonymous client and 403 to an authenticated one and
\* changes nothing; every request of an anonymous client is answered 401,
\* starts no create_order call and deletes no order.
OnlyAdminChangesCatalog ==
    [][/\ (CatalogTables' # CatalogTables => role = "admin")
       /\ (resp' # resp /\ resp'.op \in CatalogWriteOps => role = "admin")
       /\ (resp' # resp /\ resp'.op = "denied" =>
             /\ resp'.status = (IF role = "anonymous" THEN 401 ELSE 403)
             /\ CatalogTables' = CatalogTables
             /\ UNCHANGED <<orders, tickets, pc, pend, nextId, seq>>)
       /\ (role = "anonymous" /\ role' = role =>
             /\ (resp' # resp => resp'.status = 401)
             /\ \A c \in Calls : pc[c] = "idle" => pc'[c] = "idle"
             /\ DOMAIN orders \subseteq DOMAIN orders')]_vars

\* C22 witness: an authenticated non-staff client was refused (403) the
\* DELETE of a flight that has a sold ticket; the flight and the ticket are
\* still there.
OnlyAdminChangesCatalogWitness ==
    /\ resp.op = "denied" /\ resp.role = "user" /\ resp.status = 403
    /\ resp.resource = "flight" /\ resp.method = "DELETE"
    /\ role = "user"
    /\ 1 \in DOMAIN flights
    /\ \E t \in tickets : t.flight = 1

\* the rows of table T other than id that carry the name
Namesakes(T, id, name) == {q \in DOMAIN T : q # id /\ T[q].name = name}
\* the table a name request is about
NamedTable(op) ==
    CASE op \in {"create_airport", "update_airport"} -> airports
      [] op \in {"create_airplane_type", "update_airplane_type"} ->
            airplane_types
      [] op \in {"create_airplane", "put_airplane", "patch_airplane"} ->
            airplanes
      [] OTHER -> <<>>

\* C23: no two Airports, no two Airplanes and no two AirplaneTypes have the
\* same name in any reachable state, and a create or update whose name is
\* that of another row of the table is answered 400 and leaves every catalog
\* table as it was.
CatalogNamesUnique ==
    /\ [](\A i, j \in DOMAIN airports :
            airports[i].name = airports[j].name => i = j)
    /\ [](\A i, j \in DOMAIN airplanes :
            airplanes[i].name = airplanes[j].name => i = j)
    /\ [](\A i, j \in DOMAIN airplane_types :
            airplane_types[i].name = airplane_types[j].name => i = j)
    /\ [][resp' # resp
          /\ Namesakes(NamedTable(resp'.op), resp'.id, resp'.body.name) # {}
          => resp'.status = 400 /\ CatalogTables' = CatalogTables]_vars

\* C23 witness: the create of an airplane with the name of airplane 1 was
\* answered 400 while two crew members with the same first and last name
\* are both stored.
CatalogNamesUniqueWitness ==
    /\ resp.op = "create_airplane" /\ resp.status = 400
    /\ 1 \in DOMAIN airplanes /\ resp.body.name = airplanes[1].name
    /\ \E j, k \in DOMAIN crews :
          /\ j # k
          /\ crews[j].first_name = crews[k].first_name
          /\ crews[j].last_name = crews[k].last_name

AirplaneWriteOps == {"create_airplane", "put_airplane", "patch_airplane"}

\* C24: every stored Airplane has rows >= 1 and seats_in_row >= 1, and a
\* create or update whose resulting rows or seats_in_row is below 1 is
\* answered 400 and leaves the airplanes as they were.
AirplaneGeometry ==
    /\ [](\A a \in DOMAIN airplanes :
            airplanes[a].rows >= 1 /\ airplanes[a].seats_in_row >= 1)
    /\ [][resp' # resp /\ resp'.op \in AirplaneWriteOps
          /\ (resp'.body.rows < 1 \/ resp'.body.seats_in_row < 1)
          => resp'.status = 400 /\ airplanes' = airplanes]_vars

\* C24 witness: a PATCH that sets rows of an airplane to 0, its other
\* fields valid, was answered 400 and the airplane has its rows.
AirplaneGeometryWitness ==
    /\ resp.op = "patch_airplane" /\ resp.status = 400
    /\ resp.body.rows = 0 /\ resp.body.seats_in_row >= 1
    /\ resp.id \in DOMAIN airplanes
    /\ airplanes[resp.id].rows >= 1
    /\ airplanes[resp.id].name = resp.body.name

\* C25: seat validation does not stop at the first failure. When row and
\* seat are both out of bounds the one error raised names both limits
\* (rows and seats_in_row); when exactly one is out of bounds the error
\* names that limit alone.
ValidateTicketReportsAll ==
    probe.out = "raised" =>
        LET rowOut == ~(1 <= probe.row /\ probe.row <= probe.rows)
            seatOut == ~(1 <= probe.seat /\ probe.seat <= probe.seats_in_row)
        IN  /\ (rowOut /\ seatOut => probe.to_rise = {"rows", "seats_in_row"})
            /\ (rowOut /\ ~seatOut => probe.to_rise = {"rows"})
            /\ (~rowOut /\ seatOut => probe.to_rise = {"seats_in_row"})

\* C25 witness: a row above the last row with a seat below 1 was validated
\* and the error names both limits.
ValidateTicketReportsAllWitness ==
    /\ probe.out = "raised"
    /\ probe.row > probe.rows /\ probe.seat < 1
    /\ probe.to_rise = {"rows", "seats_in_row"}

\* C26: order deletion is all-or-nothing. In no committed state is an Order
\* gone while a Ticket of it remains, and in no committed state does an
\* Order remain with only a part of the Tickets it was committed with,
\* whatever create_order calls run beside the deletion.
OrderDeletionAtomic ==
    /\ \A t \in tickets : t.order \in DOMAIN orders
    /\ \A c \in Calls :
          pc[c] = "done" /\ oid[c] \in DOMAIN orders =>
              Cardinality({t \in tickets : t.order = oid[c]}) = Len(req[c])

\* C26 witness: an order committed with two tickets has been deleted, no
\* ticket of it is left, and another create_order call is inside its
\* transaction with a ticket inserted.
OrderDeletionAtomicWitness ==
    \E c, d \in Calls :
        /\ c # d
        /\ pc[c] = "done" /\ Len(req[c]) = 2
        /\ oid[c] \notin DOMAIN orders
        /\ \A t \in tickets : t.order # oid[c]
        /\ pc[d] = "in_txn" /\ pend[d] # <<>>

\* C27: the detail of a flight reports availability consistently with its
\* seat list. A retrieve answered 200 for flight F contains
\* tickets_available; its sold_tickets is exactly the set of (row, seat) of
\* F's tickets; tickets_available + |sold_tickets| is rows * seats_in_row of
\* F's airplane; and tickets_available is the value the flight list gives.
FlightDetailAvailability ==
    [][resp' # resp /\ resp'.op = "retrieve_flight" /\ resp'.status = 200 =>
         LET f == resp'.id
             body == resp'.body
         IN  /\ "tickets_available" \in DOMAIN body
             /\ body["sold_tickets"] =
                   {<<t.row, t.seat>> : t \in {s \in tickets : s.flight = f}}
             /\ body["tickets_available"] + Cardinality(body["sold_tickets"])
                   = airplanes[flights[f].airplane].rows
                       * airplanes[flights[f].airplane].seats_in_row
             /\ body["tickets_available"] = TicketsAvailable(f)]_vars

\* C28: referential integrity. In every reachable state every Ticket refers
\* to a stored Flight and a stored Order, every Flight to a stored Route and
\* a stored Airplane, every Route to stored Airports and every Airplane to a
\* stored AirplaneType; and the step that deletes an Airport, Route,
\* AirplaneType, Airplane or Flight leaves no Route, Airplane, Flight or
\* Ticket that depended on the deleted row.
ReferentialIntegrity ==
    /\ [](\A t \in tickets :
            t.flight \in DOMAIN flights /\ t.order \in DOMAIN orders)
    /\ [](\A f \in DOMAIN flights :
            /\ flights[f].route \in DOMAIN routes
            /\ flights[f].airplane \in DOMAIN airplanes)
    /\ [](\A r \in DOMAIN routes :
            /\ routes[r].source \in DOMAIN airports
            /\ routes[r].destination \in DOMAIN airports)
    /\ [](\A a \in DOMAIN airplanes :
            airplanes[a].airplane_type \in DOMAIN airplane_types)
    /\ [][LET goneAirports == (DOMAIN airports) \ (DOMAIN airports')
              goneTypes == (DOMAIN airplane_types) \ (DOMAIN airplane_types')
              goneRoutes == (DOMAIN routes) \ (DOMAIN routes')
              goneAirplanes == (DOMAIN airplanes) \ (DOMAIN airplanes')
              goneFlights == (DOMAIN flights) \ (DOMAIN flights')
          IN  /\ \A r \in DOMAIN routes :
                    (routes[r].source \in goneAirports
                     \/ routes[r].destination \in goneAirports)
                    => r \in goneRoutes
              /\ \A a \in DOMAIN airplanes :
                    airplanes[a].airplane_type \in goneTypes
                    => a \in goneAirplanes
              /\ \A f \in DOMAIN flights :
                    (flights[f].route \in goneRoutes
                     \/ flights[f].airplane \in goneAirplanes)
                    => f \in goneFlights
              /\ \A t \in tickets :
                    t.flight \in goneFlights => t \notin tickets']_vars

\* C28 witness: the airplane type was deleted after a ticket had been sold
\* on a flight of an airplane of the type; the airplane, the flight and the
\* ticket are gone with it.
ReferentialIntegrityWitness ==
    /\ 1 \notin DOMAIN airplane_types
    /\ 1 \notin DOMAIN airplanes
    /\ 1 \notin DOMAIN flights
    /\ \E c \in Calls :
          /\ pc[c] = "done" /\ req[c][1].flight = 1
          /\ oid[c] \in DOMAIN orders
          /\ \A t \in tickets : t.order # oid[c]

\* C29: an Order created through create_order belongs to the authenticated
\* caller. Whatever the payload of the request carried (a user value
\* included), the Order that the call committed has the user who sent the
\* request.
OrderOwnedByCaller ==
    (/\ resp.op = "post_order"
     /\ pc[resp.call] = "done"
     /\ oid[resp.call] \in DOMAIN orders)
    => orders[oid[resp.call]].user = resp.user

\* C29 witness: a request whose payload named another user was committed,
\* and the order is the caller's.
OrderOwnedByCallerWitness ==
    /\ resp.op = "post_order"
    /\ resp.payload_user \in Users \ {resp.user}
    /\ pc[resp.call] = "done"
    /\ oid[resp.call] \in DOMAIN orders
    /\ orders[oid[resp.call]].user = resp.user

\* the ticket list names one (flight, row, seat) twice
HasDuplicate(reqs) ==
    \E i, j \in DOMAIN reqs : i < j /\ Key(reqs[i]) = Key(reqs[j])

\* C30: a create_order call whose ticket list names the same (flight, row,
\* seat) twice never succeeds, and neither its Order nor any Ticket of it is
\* ever among the committed rows -- the first of the two equal tickets
\* included.
DuplicateSeatInOrderFails ==
    \A c \in Calls :
        HasDuplicate(req[c]) =>
            /\ pc[c] # "done"
            /\ oid[c] \notin DOMAIN orders
            /\ \A t \in tickets : t.order # oid[c]

\* C30 witness: a call that asked twice for a seat that is in bounds and
\* that nobody holds has failed on the second of the two, and nothing of it
\* is stored.
DuplicateSeatInOrderFailsWitness ==
    \E c \in Calls :
        /\ pc[c] = "failed" /\ err[c] = "conflict" /\ failAt[c] = {2}
        /\ Len(req[c]) = 2 /\ Key(req[c][1]) = Key(req[c][2])
        /\ TicketValid(req[c][1])
        /\ Key(req[c][1]) \notin Keys(tickets)
        /\ oid[c] \notin DOMAIN orders
        /\ \A t \in tickets : t.order # oid[c]
====
